---------------------------- MODULE Spec2Model ----------------------------
(***************************************************************************)
(* State-machine model of the live face demo (app.js, phrase_selector.js): *)
(* the face movement tracker, the phrase selector and the phrase playback  *)
(* sequencer, together with the asynchronous callbacks that drive them     *)
(* (animation frames, face detection results, audio events, the delay      *)
(* timer, the remote phrase fetch, start and stop of the camera).          *)
(*                                                                         *)
(* JavaScript strings are sequences of one-character strings.  null and    *)
(* the empty string are both <<>>: the code only ever tests a phrase for   *)
(* truthiness.  Audio objects live in a pool of slots; a slot is free      *)
(* again once the browser can deliver no further event for its audio.      *)
(***************************************************************************)
EXTENDS Integers, Sequences, FiniteSets, TLC

\* ------------------------------------------------------------------ bounds
MaxLive == 2
MaxStarts == 2
MaxFrame == 6
RestartFrames == 4
FallbackFrames == 8
TrackFrames == 8
StaleTicks == 20
MoveFrames == 7
MaxSpeed == 1100
RandomGrid == 2

\* ------------------------------------------------------- program constants
SPEED_WINDOW_SIZE == 5
MIN_FRAMES_FOR_SPEED == 5
LOCAL_PHRASES_BEFORE_POF == 3
MatchThreshold == 100
StaleFrames == 30
Fps == 30
SpeedLo == 300
SpeedHi == 1000
maxRecentHistory == 5

VARIABLES
    \* app.js
    isRunning, frameCount, previousDetections, faceMovementData, lastFaceId,
    phraseDisplayData, currentAudio, isWaitingForNextMessage,
    nextMessageTimeout, localPhraseCount, isInPOFMode, pofPhrases,
    currentPOFPhraseIndex, pofRequestInProgress,
    \* phrase_selector.js
    ready, phrases, recentPhrases,
    \* the browser: audio objects, pending callbacks, wall clock
    audios, orphanTimers, pofInFlight, listeners, rafLoops, detecting, now,
    \* history of the session, read by no action
    clean, decisionLog, fetchFailed

trackVars == <<frameCount, previousDetections, faceMovementData, lastFaceId>>
seqVars == <<phraseDisplayData, currentAudio, isWaitingForNextMessage,
             nextMessageTimeout, localPhraseCount, isInPOFMode, pofPhrases,
             currentPOFPhraseIndex, pofRequestInProgress, recentPhrases,
             audios, orphanTimers, pofInFlight>>
selVars == <<ready, phrases>>
loopVars == <<isRunning, listeners, rafLoops, detecting>>
histVars == <<clean, decisionLog>>
vars == <<trackVars, seqVars, selVars, loopVars, now, histVars, fetchFailed>>

\* ------------------------------------------------------------------ values
Null == <<>>
NoPhrase == <<>>

Abs(a) == IF a < 0 THEN -a ELSE a

RECURSIVE Gcd(_, _)
Gcd(a, b) == IF b = 0 THEN a ELSE Gcd(b, a % b)

\* Array.prototype.indexOf: the first position (from 0) of x, or -1.
IndexOf(s, x) ==
    IF \E i \in 1..Len(s) : s[i] = x
    THEN (CHOOSE i \in 1..Len(s) : s[i] = x /\ \A j \in 1..(i - 1) : s[j] # x) - 1
    ELSE -1

\* Exact rationals <<n, d>> with d > 0 stand for the code's floating-point numbers.
Rat(n, d) == LET g == Gcd(Abs(n), Abs(d)) IN
             IF d < 0 THEN <<(-n) \div g, (-d) \div g>> ELSE <<n \div g, d \div g>>
RatLess(a, b) == a[1] * b[2] < b[1] * a[2]
RatLeq(a, b) == a[1] * b[2] <= b[1] * a[2]
RatAdd(a, b) == Rat(a[1] * b[2] + b[1] * a[2], a[2] * b[2])
RatAbs(a) == <<Abs(a[1]), a[2]>>

RECURSIVE RatSum(_)
RatSum(s) == IF s = <<>> THEN <<0, 1>> ELSE RatAdd(RatAbs(Head(s)), RatSum(Tail(s)))

\* ---------------------------------------------------------- PhraseSelector
RECURSIVE LcmUpTo(_)
LcmUpTo(n) == IF n <= 1 THEN 1
              ELSE LET l == LcmUpTo(n - 1) IN (l * n) \div Gcd(l, n)

\* Weights 1/(recentIndex + 2) are counted in units of 1/WeightUnit.
WeightUnit == LcmUpTo(maxRecentHistory + 1)

Has(m, k) == k \in DOMAIN m

\* A variant that counts the lower breakpoint itself as slow; C15 tells it
\* from the code.
getSpeedCategory_inclusive(speed) ==
    IF speed = Null THEN "med"
    ELSE IF RatLeq(speed, <<SpeedLo, 1>>) THEN "lo"
    ELSE IF RatLeq(speed, <<SpeedHi, 1>>) THEN "med"
    ELSE "hi"

getSpeedCategory(speed) ==
    IF speed = Null THEN "med"
    ELSE IF RatLess(speed, <<SpeedLo, 1>>) THEN "lo"
    ELSE IF RatLeq(speed, <<SpeedHi, 1>>) THEN "med"
    ELSE "hi"

Bucket(emotion, category) ==
    IF Has(phrases, emotion) /\ Has(phrases[emotion], category)
    THEN phrases[emotion][category] ELSE <<>>

\* A variant that also offers the emotion's phrases for medium speed at
\* every speed; C13 tells it from the code.
getPhrasesForCombination_anySpeed(emotion, speedCategory) ==
    IF ~ready \/ phrases = Null THEN <<>>
    ELSE Bucket(emotion, speedCategory) \o Bucket(emotion, "all")
         \o Bucket("all", speedCategory) \o Bucket("all", "all")
         \o Bucket(emotion, "med")

getPhrasesForCombination(emotion, speedCategory) ==
    IF ~ready \/ phrases = Null THEN <<>>
    ELSE Bucket(emotion, speedCategory) \o Bucket(emotion, "all")
         \o Bucket("all", speedCategory) \o Bucket("all", "all")

\* A variant whose weights start at 1 for the newest entry of the history;
\* C17 tells it from the code.
PhraseWeight_full(phrase, recent) ==
    LET recentIndex == IndexOf(recent, phrase) IN
    IF recentIndex >= 0 THEN WeightUnit \div (recentIndex + 1) ELSE WeightUnit

PhraseWeight(phrase, recent) ==
    LET recentIndex == IndexOf(recent, phrase) IN
    IF recentIndex >= 0 THEN WeightUnit \div (recentIndex + 2) ELSE WeightUnit

RECURSIVE TotalWeight(_, _)
TotalWeight(available, recent) ==
    IF available = <<>> THEN 0
    ELSE PhraseWeight(Head(available), recent) + TotalWeight(Tail(available), recent)

\* The loop of lines 106-112; random is counted in units of 1/(WeightUnit * RandomGrid).
RECURSIVE WeightedPick(_, _, _)
WeightedPick(available, recent, random) ==
    IF available = <<>> THEN NoPhrase
    ELSE LET left == random - PhraseWeight(Head(available), recent) * RandomGrid IN
         IF left <= 0 THEN Head(available)
         ELSE WeightedPick(Tail(available), recent, left)

\* A variant that does not remove the earlier occurrence of the phrase; C14
\* tells it from the code.
UpdateHistory_keep(recent, selectedPhrase) ==
    LET added == <<selectedPhrase>> \o recent
    IN IF Len(added) > maxRecentHistory THEN SubSeq(added, 1, Len(added) - 1) ELSE added

UpdateHistory(recent, selectedPhrase) ==
    LET removed == SelectSeq(recent, LAMBDA p : p # selectedPhrase)
        added == <<selectedPhrase>> \o removed
    IN IF Len(added) > maxRecentHistory THEN SubSeq(added, 1, Len(added) - 1) ELSE added

\* A variant that enters an empty result in the history; C20 tells it from
\* the code.
selectPhrase_recorded(emotion, speed, recent, k1, k2) ==
    LET speedCategory == getSpeedCategory(speed)
        availablePhrases == getPhrasesForCombination(emotion, speedCategory)
        picked == WeightedPick(availablePhrases, recent,
                               k1 * TotalWeight(availablePhrases, recent))
        selectedPhrase ==
            IF picked # NoPhrase THEN picked
            ELSE availablePhrases[((k2 * Len(availablePhrases)) \div RandomGrid) + 1]
    IN IF ~ready \/ Len(availablePhrases) = 0
       THEN [phrase |-> NoPhrase, recent |-> UpdateHistory(recent, NoPhrase)]
       ELSE [phrase |-> selectedPhrase, recent |-> UpdateHistory(recent, selectedPhrase)]

\* selectPhrase with Math.random() returning k1 / RandomGrid, then k2 / RandomGrid.
\* The result is the phrase returned (NoPhrase for null) and the new history.
selectPhrase(emotion, speed, recent, k1, k2) ==
    LET speedCategory == getSpeedCategory(speed)
        availablePhrases == getPhrasesForCombination(emotion, speedCategory)
        picked == WeightedPick(availablePhrases, recent,
                               k1 * TotalWeight(availablePhrases, recent))
        selectedPhrase ==
            IF picked # NoPhrase THEN picked
            ELSE availablePhrases[((k2 * Len(availablePhrases)) \div RandomGrid) + 1]
    IN IF ~ready THEN [phrase |-> NoPhrase, recent |-> recent]
       ELSE IF Len(availablePhrases) = 0 THEN [phrase |-> NoPhrase, recent |-> recent]
       ELSE [phrase |-> selectedPhrase, recent |-> UpdateHistory(recent, selectedPhrase)]

\* ------------------------------------------------------ playback sequencer
\* The handlers call one another synchronously, so each is an operator from
\* the sequencer's state (a record q of the variables below) to its state
\* when the call returns.  q.full is set when a call needs a new Audio and
\* the pool has no free slot; an action whose run sets it is not taken.
AudioIds == 1..MaxLive
FreeAudio == [st |-> "free", audioErrored |-> FALSE]

SeqState ==
    [phraseDisplayData |-> phraseDisplayData, currentAudio |-> currentAudio,
     isWaitingForNextMessage |-> isWaitingForNextMessage,
     nextMessageTimeout |-> nextMessageTimeout,
     localPhraseCount |-> localPhraseCount, isInPOFMode |-> isInPOFMode,
     pofPhrases |-> pofPhrases, currentPOFPhraseIndex |-> currentPOFPhraseIndex,
     pofRequestInProgress |-> pofRequestInProgress, recentPhrases |-> recentPhrases,
     audios |-> audios, orphanTimers |-> orphanTimers, pofInFlight |-> pofInFlight,
     full |-> FALSE]

SetSeq(q) ==
    /\ ~q.full
    /\ phraseDisplayData' = q.phraseDisplayData
    /\ currentAudio' = q.currentAudio
    /\ isWaitingForNextMessage' = q.isWaitingForNextMessage
    /\ nextMessageTimeout' = q.nextMessageTimeout
    /\ localPhraseCount' = q.localPhraseCount
    /\ isInPOFMode' = q.isInPOFMode
    /\ pofPhrases' = q.pofPhrases
    /\ currentPOFPhraseIndex' = q.currentPOFPhraseIndex
    /\ pofRequestInProgress' = q.pofRequestInProgress
    /\ recentPhrases' = q.recentPhrases
    /\ audios' = q.audios
    /\ orphanTimers' = q.orphanTimers
    /\ pofInFlight' = q.pofInFlight

\* A variant that drops the reference without pausing the audio; C1 tells
\* it from the code.
PauseCurrent_unpaused(q, pend) ==
    IF q.currentAudio = 0 THEN q ELSE [q EXCEPT !.currentAudio = 0]

\* currentAudio.pause(); currentAudio = null.  pend: the paused audio's play()
\* promise was still pending, so its rejection (AbortError) is yet to come.
PauseCurrent(q, pend) ==
    IF q.currentAudio = 0 THEN q
    ELSE [q EXCEPT !.audios[q.currentAudio] =
                        IF pend /\ ~@.audioErrored THEN [@ EXCEPT !.st = "paused"]
                        ELSE FreeAudio,
                   !.currentAudio = 0]

\* A variant that forgets the handle without cancelling the timer; C21 tells
\* it from the code.
ClearTimeout_forgotten(q) ==
    IF q.nextMessageTimeout = "pending"
    THEN [q EXCEPT !.nextMessageTimeout = "null", !.orphanTimers = @ + 1]
    ELSE IF q.nextMessageTimeout # "null" THEN [q EXCEPT !.nextMessageTimeout = "null"]
    ELSE q

\* clearTimeout(nextMessageTimeout); nextMessageTimeout = null
ClearTimeout(q) ==
    IF q.nextMessageTimeout # "null" THEN [q EXCEPT !.nextMessageTimeout = "null"] ELSE q

FreeSlot(au) ==
    IF \E a \in AudioIds : au[a].st = "free"
    THEN CHOOSE a \in AudioIds : au[a].st = "free" /\ \A b \in 1..(a - 1) : au[b].st # "free"
    ELSE 0

RECURSIVE playPhraseAudio(_, _, _, _), triggerNextMessage(_, _)

playPhraseAudio(q, phrase, isVLM, pend) ==
    IF phrase = NoPhrase THEN triggerNextMessage(q, pend)
    ELSE LET q1 == ClearTimeout(PauseCurrent(q, pend))
             q2 == [q1 EXCEPT !.phraseDisplayData = [currentPhrase |-> phrase, isVLM |-> isVLM]]
             audio == FreeSlot(q2.audios)
         IN \* phraseToFilename of a non-empty phrase ends in ".mp3": never empty
            IF audio = 0 THEN [q2 EXCEPT !.full = TRUE]
            ELSE [q2 EXCEPT !.isWaitingForNextMessage = FALSE,
                            !.audios[audio] = [st |-> "playing", audioErrored |-> FALSE],
                            !.currentAudio = audio]

triggerNextMessage(q, pend) ==
    IF q.isWaitingForNextMessage THEN q
    ELSE IF q.isInPOFMode /\ Len(q.pofPhrases) > 0
    THEN LET index == q.currentPOFPhraseIndex + 1 IN
         IF index < Len(q.pofPhrases)
         THEN playPhraseAudio([q EXCEPT !.currentPOFPhraseIndex = index,
                                        !.isWaitingForNextMessage = FALSE],
                              q.pofPhrases[index + 1], TRUE, pend)
         ELSE [q EXCEPT !.isInPOFMode = FALSE, !.pofPhrases = <<>>,
                        !.currentPOFPhraseIndex = 0, !.localPhraseCount = 0,
                        !.isWaitingForNextMessage = FALSE]
    ELSE [q EXCEPT !.isWaitingForNextMessage = FALSE]

\* audio.onended of the audio in slot a
audio_onended(q, a) ==
    IF ~q.audios[a].audioErrored /\ q.currentAudio = a
    THEN [q EXCEPT !.currentAudio = 0,
                   !.isWaitingForNextMessage = FALSE,
                   !.orphanTimers = IF q.nextMessageTimeout = "pending" THEN @ + 1 ELSE @,
                   !.nextMessageTimeout = "pending"]
    ELSE q

\* A variant without the audioErrored guard; C9 tells it from the code.
audio_onerror_unguarded(q, a, pend) ==
    triggerNextMessage([q EXCEPT !.audios[a].audioErrored = TRUE,
                                 !.currentAudio = IF @ = a THEN 0 ELSE @,
                                 !.phraseDisplayData.currentPhrase = NoPhrase,
                                 !.isWaitingForNextMessage = FALSE],
                       pend)

\* audio.onerror of the audio in slot a
audio_onerror(q, a, pend) ==
    IF q.audios[a].audioErrored THEN q
    ELSE LET q1 == [q EXCEPT !.audios[a].audioErrored = TRUE,
                             !.currentAudio = IF @ = a THEN 0 ELSE @,
                             !.phraseDisplayData.currentPhrase = NoPhrase,
                             !.isWaitingForNextMessage = FALSE]
         IN triggerNextMessage(q1, pend)

\* the handler of audio.play().catch for the audio in slot a
play_catch(q, a, pend) ==
    IF q.audios[a].audioErrored THEN q
    ELSE LET q1 == [q EXCEPT !.audios[a].audioErrored = TRUE,
                             !.currentAudio = IF @ = a THEN 0 ELSE @,
                             !.phraseDisplayData.currentPhrase = NoPhrase,
                             !.isWaitingForNextMessage = FALSE]
         IN triggerNextMessage(q1, pend)

\* A variant that schedules a retry when nothing is selected; C29 tells it
\* from the code.
selectAndPlayLocalPhrase_retry(q, dominantEmotionX, speedPixelsPerFrame, k1, k2, pend) ==
    LET sel == selectPhrase(dominantEmotionX, speedPixelsPerFrame, q.recentPhrases, k1, k2)
        q1 == [q EXCEPT !.recentPhrases = sel.recent]
    IN IF sel.phrase # NoPhrase THEN playPhraseAudio(q1, sel.phrase, FALSE, pend)
       ELSE [q1 EXCEPT !.nextMessageTimeout = "pending"]

selectAndPlayLocalPhrase(q, dominantEmotionX, speedPixelsPerFrame, k1, k2, pend) ==
    LET sel == selectPhrase(dominantEmotionX, speedPixelsPerFrame, q.recentPhrases, k1, k2)
        q1 == [q EXCEPT !.recentPhrases = sel.recent]
    IN IF sel.phrase # NoPhrase THEN playPhraseAudio(q1, sel.phrase, FALSE, pend)
       ELSE triggerNextMessage(q1, pend)

\* fetchPOFPhrases up to its first await
fetchPOFPhrases_start(q) ==
    IF q.pofRequestInProgress THEN q
    ELSE [q EXCEPT !.pofRequestInProgress = TRUE, !.pofInFlight = @ + 1]

\* String.prototype.trim over the characters of the model
RECURSIVE TrimLeft(_)
TrimLeft(str) == IF str # <<>> /\ Head(str) = " " THEN TrimLeft(Tail(str)) ELSE str
RECURSIVE TrimRight(_)
TrimRight(str) == IF str # <<>> /\ str[Len(str)] = " "
                  THEN TrimRight(SubSeq(str, 1, Len(str) - 1)) ELSE str
Trim(str) == TrimRight(TrimLeft(str))

RECURSIVE MapTrim(_)
MapTrim(items) == IF items = <<>> THEN <<>>
                  ELSE <<Trim(Head(items).chars)>> \o MapTrim(Tail(items))

\* A variant whose catch block leaves the waiting flag as it is; C24 tells it
\* from the code.
fetchPOFPhrases_resume_waiting(q, resp, pend) ==
    LET caught == [q EXCEPT !.isInPOFMode = FALSE, !.pofPhrases = <<>>,
                            !.currentPOFPhraseIndex = 0]
        trimmed == SelectSeq(MapTrim(resp.items), LAMBDA phrase : Len(phrase) > 0)
        stored == [q EXCEPT !.pofPhrases = trimmed, !.currentPOFPhraseIndex = 0,
                            !.isInPOFMode = TRUE]
        body ==
            IF resp.rejected \/ ~resp.ok THEN caught
            ELSE IF resp.isArray /\ Len(resp.items) > 0
            THEN IF \E i \in 1..Len(resp.items) : ~resp.items[i].isString
                 THEN caught
                 ELSE IF Len(trimmed) > 0
                 THEN playPhraseAudio([stored EXCEPT !.isWaitingForNextMessage = FALSE],
                                      trimmed[1], TRUE, pend)
                 ELSE [stored EXCEPT !.isInPOFMode = FALSE,
                                     !.isWaitingForNextMessage = FALSE]
            ELSE caught
    IN [body EXCEPT !.pofRequestInProgress = FALSE, !.pofInFlight = @ - 1]

\* fetchPOFPhrases from the point where its awaits have settled with response
\* resp: [rejected, ok, isArray, items], an item being [isString, chars].
\* rejected: captureFrameAsJPG, fetch or response.json() rejected.
fetchPOFPhrases_resume(q, resp, pend) ==
    LET caught == [q EXCEPT !.isInPOFMode = FALSE, !.pofPhrases = <<>>,
                            !.currentPOFPhraseIndex = 0,
                            !.isWaitingForNextMessage = FALSE]
        trimmed == SelectSeq(MapTrim(resp.items), LAMBDA phrase : Len(phrase) > 0)
        stored == [q EXCEPT !.pofPhrases = trimmed, !.currentPOFPhraseIndex = 0,
                            !.isInPOFMode = TRUE]
        body ==
            IF resp.rejected \/ ~resp.ok THEN caught
            ELSE IF resp.isArray /\ Len(resp.items) > 0
            THEN IF \E i \in 1..Len(resp.items) : ~resp.items[i].isString
                 THEN caught   \* phrase.trim is not a function: TypeError
                 ELSE IF Len(trimmed) > 0
                 THEN playPhraseAudio([stored EXCEPT !.isWaitingForNextMessage = FALSE],
                                      trimmed[1], TRUE, pend)
                 ELSE [stored EXCEPT !.isInPOFMode = FALSE,
                                     !.isWaitingForNextMessage = FALSE]
            ELSE caught
    IN [body EXCEPT !.pofRequestInProgress = FALSE, !.pofInFlight = @ - 1]

\* ------------------------------------------------------------ face tracker
\* Integer square root by bisection; the inputs of the model keep it exact.
\* The root of a 32-bit number is at most 46340.
RECURSIVE SqrtBetween(_, _, _)
SqrtBetween(n, lo, hi) ==
    IF lo >= hi THEN lo
    ELSE LET mid == (lo + hi) \div 2 IN
         IF mid * mid >= n THEN SqrtBetween(n, lo, mid) ELSE SqrtBetween(n, mid + 1, hi)
Sqrt(n) == SqrtBetween(n, 0, IF n > 46340 THEN 46340 ELSE n)

\* Twice the centre of a box, so that odd widths stay exact.
Center2(box) == [x |-> 2 * box.x + box.width, y |-> 2 * box.y + box.height]

\* distance(p1, p2) between the centres of two boxes
distance(boxA, boxB) ==
    LET p1 == Center2(boxA)
        p2 == Center2(boxB)
    IN Rat(Sqrt((p2.x - p1.x) * (p2.x - p1.x) + (p2.y - p1.y) * (p2.y - p1.y)), 2)

\* A variant that also matches at the threshold itself; C18 tells it from
\* the code.
RECURSIVE MatchScan_inclusive(_, _, _, _, _, _)
MatchScan_inclusive(currentBox, previousBoxes, threshold, i, bestMatch, minDistance) ==
    IF i > Len(previousBoxes) THEN bestMatch
    ELSE LET dist == distance(currentBox, previousBoxes[i]) IN
         IF RatLeq(dist, <<threshold, 1>>)
            /\ (minDistance = Null \/ RatLess(dist, minDistance))
         THEN MatchScan_inclusive(currentBox, previousBoxes, threshold, i + 1, i - 1, dist)
         ELSE MatchScan_inclusive(currentBox, previousBoxes, threshold, i + 1,
                                  bestMatch, minDistance)

\* The forEach of matchFaceToPrevious from position i (from 1) on; best is
\* the index found so far (from 0, -1 for none), minDistance its distance
\* (Null for Infinity).
RECURSIVE MatchScan(_, _, _, _, _, _)
MatchScan(currentBox, previousBoxes, threshold, i, bestMatch, minDistance) ==
    IF i > Len(previousBoxes) THEN bestMatch
    ELSE LET dist == distance(currentBox, previousBoxes[i]) IN
         IF RatLess(dist, <<threshold, 1>>)
            /\ (minDistance = Null \/ RatLess(dist, minDistance))
         THEN MatchScan(currentBox, previousBoxes, threshold, i + 1, i - 1, dist)
         ELSE MatchScan(currentBox, previousBoxes, threshold, i + 1, bestMatch, minDistance)

\* A variant with a threshold of 20 units; C16 tells it from the code.
matchFaceToPrevious_near(currentBox, previousBoxes) ==
    MatchScan(currentBox, previousBoxes, 20, 1, -1, Null)

matchFaceToPrevious(currentBox, previousBoxes) ==
    MatchScan(currentBox, previousBoxes, MatchThreshold, 1, -1, Null)

\* calculateMovementSpeed(...).speed for a previous box and timeDelta # 0:
\* the norm of (dx / timeDelta, dy / timeDelta)
calculateMovementSpeed(currentBox, previousBox, timeDelta) ==
    LET d == distance(previousBox, currentBox) IN Rat(d[1], d[2] * Abs(timeDelta))

\* Lines 270-309: the entry of faceId in faceMovementData is created or
\* updated and the detection annotated.  t is [data, dets]: the map and the
\* detections annotated so far.  A new entry has lastBox null, so it gets no
\* sample in the turn that creates it.
TrackEntry(t, detection, currentTime, faceId, timeDelta, matched) ==
    LET box == detection.box
        known == faceId \in DOMAIN t.data
        old == IF known THEN t.data[faceId]
               ELSE [speeds |-> <<>>, lastBox |-> box, lastTime |-> 0]
        pushed == IF known /\ old.lastTime # 0
                  THEN Append(old.speeds,
                              calculateMovementSpeed(box, old.lastBox, timeDelta))
                  ELSE old.speeds
        speeds == IF Len(pushed) > SPEED_WINDOW_SIZE THEN Tail(pushed) ELSE pushed
        entry == [speeds |-> speeds, lastBox |-> box, lastTime |-> currentTime]
    IN [data |-> [id \in DOMAIN t.data \cup {faceId} |->
                     IF id = faceId THEN entry ELSE t.data[id]],
        dets |-> Append(t.dets, [box |-> box, expressions |-> detection.expressions,
                                 faceId |-> faceId, timestamp |-> currentTime,
                                 timeDelta |-> timeDelta, matched |-> matched])]

\* Lines 257-268 for the answer matchIdx of matchFaceToPrevious: the identity
\* and the time since the matched detection.  A snapshot entry always
\* carries a faceId, so a match never makes a new identity.
TrackMatched(t, detection, idx, currentTime, prev, frames, clock, matchIdx) ==
    LET matched == matchIdx >= 0
        stamp == IF matched THEN prev[matchIdx + 1].timestamp ELSE 0
        delta0 == currentTime - (IF stamp # 0 THEN stamp ELSE currentTime - 1)
    IN TrackEntry(t, detection, currentTime,
                  IF matched THEN prev[matchIdx + 1].faceId ELSE <<frames, idx, clock>>,
                  IF matched /\ delta0 # 0 THEN delta0 ELSE 1,
                  matched)

\* One turn of the forEach of updateMovementTracking, for detection idx
\* (from 0) of the frame.
TrackOne(t, detection, idx, currentTime, prev, frames, clock) ==
    TrackMatched(t, detection, idx, currentTime, prev, frames, clock,
                 matchFaceToPrevious(detection.box, prev))

RECURSIVE TrackAll(_, _, _, _, _, _, _)
TrackAll(t, detections, idx, currentTime, prev, frames, clock) ==
    IF idx >= Len(detections) THEN t
    ELSE TrackAll(TrackOne(t, detections[idx + 1], idx, currentTime, prev, frames, clock),
                  detections, idx + 1, currentTime, prev, frames, clock)

Snapshot(dets) ==
    [i \in 1..Len(dets) |->
        [x |-> dets[i].box.x, y |-> dets[i].box.y, width |-> dets[i].box.width,
         height |-> dets[i].box.height, faceId |-> dets[i].faceId,
         timestamp |-> dets[i].timestamp]]

\* A variant that drops every identity absent from the frame, whatever its
\* age; C28 tells it from the code.
Sweep_absent(data, dets, frames) ==
    LET stale(id) == ~\E i \in 1..Len(dets) : dets[i].faceId = id
        kept == {id \in DOMAIN data : ~stale(id)}
    IN [id \in kept |-> data[id]]

\* The sweep of lines 322-332 over the map data
Sweep(data, dets, frames) ==
    LET stale(id) == /\ ~\E i \in 1..Len(dets) : dets[i].faceId = id
                     /\ frames - data[id].lastTime > StaleFrames
        kept == {id \in DOMAIN data : ~stale(id)}
    IN [id \in kept |-> data[id]]

\* updateMovementTracking(detections, currentTime) with frameCount = frames
\* and Date.now() = clock: [data, prev, dets]
Tracked(t, frames) ==
    [data |-> Sweep(t.data, t.dets, frames), prev |-> Snapshot(t.dets), dets |-> t.dets]

updateMovementTracking(detections, currentTime, data, prev, frames, clock) ==
    Tracked(TrackAll([data |-> data, dets |-> <<>>], detections, 0, currentTime,
                     prev, frames, clock),
            frames)

\* A variant that reports a speed one sample early; C11 tells it from the
\* code.
getAverageSpeed_early(data, faceId) ==
    IF faceId \notin DOMAIN data \/ Len(data[faceId].speeds) < MIN_FRAMES_FOR_SPEED - 1
    THEN Null
    ELSE LET speeds == data[faceId].speeds
             total == RatSum(speeds)
             avgSpeed == Rat(total[1], total[2] * Len(speeds))
         IN [avgSpeed |-> avgSpeed,
             speedPerSecond |-> Rat(avgSpeed[1] * Fps, avgSpeed[2]),
             sampleCount |-> Len(speeds)]

\* getAverageSpeed(faceId): Null, or [avgSpeed, speedPerSecond, sampleCount]
getAverageSpeed(data, faceId) ==
    IF faceId \notin DOMAIN data \/ Len(data[faceId].speeds) < MIN_FRAMES_FOR_SPEED
    THEN Null
    ELSE LET speeds == data[faceId].speeds
             total == RatSum(speeds)
             avgSpeed == Rat(total[1], total[2] * Len(speeds))
         IN [avgSpeed |-> avgSpeed,
             speedPerSecond |-> Rat(avgSpeed[1] * Fps, avgSpeed[2]),
             sampleCount |-> Len(speeds)]

\* ------------------------------------------------------------- detectFaces
ExpressionKeys == <<"neutral", "happy", "sad">>

\* reduce((a, b) => expressions[a] > expressions[b] ? a : b) over keys
RECURSIVE ReduceMax(_, _, _)
ReduceMax(expressions, a, keys) ==
    IF keys = <<>> THEN a
    ELSE ReduceMax(expressions,
                   IF expressions[a] > expressions[Head(keys)] THEN a ELSE Head(keys),
                   Tail(keys))

DominantEmotionX(expressions) ==
    LET emotionsExNeutral == SelectSeq(ExpressionKeys, LAMBDA k : k # "neutral") IN
    IF Len(emotionsExNeutral) > 0
    THEN ReduceMax(expressions, Head(emotionsExNeutral), Tail(emotionsExNeutral))
    ELSE "neutral"

\* The forEach of lines 703-709: the position in dets of the largest face, 0 for none
RECURSIVE LargestScan(_, _, _, _)
LargestScan(dets, i, largestFace, largestWidth) ==
    IF i > Len(dets) THEN largestFace
    ELSE IF dets[i].box.width > largestWidth
         THEN LargestScan(dets, i + 1, i, dets[i].box.width)
         ELSE LargestScan(dets, i + 1, largestFace, largestWidth)
LargestFace(dets) == LargestScan(dets, 1, 0, 0)

\* Is the frame a decision point (lines 738 and 740)?
IsDecisionPoint(q, dets) ==
    /\ LargestFace(dets) # 0
    /\ q.currentAudio = 0 /\ ~q.isWaitingForNextMessage /\ ready
    /\ ~q.isInPOFMode

\* A variant that asks for the remote phrases one decision early; C2 tells
\* it from the code.
ManagePhrases_early(q, dets, data, k1, k2) ==
    LET face == dets[LargestFace(dets)]
        speedData == getAverageSpeed(data, face.faceId)
        counted == [q EXCEPT !.localPhraseCount = @ + 1]
    IN IF ~IsDecisionPoint(q, dets) THEN q
       ELSE IF counted.localPhraseCount >= LOCAL_PHRASES_BEFORE_POF
               /\ ~counted.pofRequestInProgress
       THEN fetchPOFPhrases_start([counted EXCEPT !.localPhraseCount = 0,
                                                  !.isWaitingForNextMessage = TRUE])
       ELSE selectAndPlayLocalPhrase(counted, DominantEmotionX(face.expressions),
                                     IF speedData # Null THEN speedData.avgSpeed ELSE Null,
                                     k1, k2, FALSE)

\* Lines 711-760 of detectFaces for the annotated detections dets.
\* fetchPOFPhrases catches every error itself, so the .catch of line 749
\* never runs.
ManagePhrases(q, dets, data, k1, k2) ==
    LET face == dets[LargestFace(dets)]
        dominantEmotionX == DominantEmotionX(face.expressions)
        speedData == getAverageSpeed(data, face.faceId)
        speedPixelsPerFrame == IF speedData # Null THEN speedData.avgSpeed ELSE Null
        counted == [q EXCEPT !.localPhraseCount = @ + 1]
    IN IF ~IsDecisionPoint(q, dets) THEN q
       ELSE IF counted.localPhraseCount > LOCAL_PHRASES_BEFORE_POF
               /\ ~counted.pofRequestInProgress
       THEN fetchPOFPhrases_start([counted EXCEPT !.localPhraseCount = 0,
                                                  !.isWaitingForNextMessage = TRUE])
       ELSE selectAndPlayLocalPhrase(counted, dominantEmotionX, speedPixelsPerFrame,
                                     k1, k2, FALSE)

\* What a decision point did, for the session history: it called
\* fetchPOFPhrases (line 749), or selectAndPlayLocalPhrase (line 758), which
\* played a phrase or found none.
DecisionKind(q, q1) ==
    IF q1.pofInFlight > q.pofInFlight THEN "fetch"
    ELSE IF q1.currentAudio # 0 THEN "local" ELSE "none"

\* ----------------------------------------------------------------- actions
Range(s) == {s[i] : i \in 1..Len(s)}

RECURSIVE InsertSorted(_, _)
InsertSorted(s, x) ==
    IF s = <<>> THEN <<x>>
    ELSE IF x <= Head(s) THEN <<x>> \o s ELSE <<Head(s)>> \o InsertSorted(Tail(s), x)

RemoveOne(s, x) ==
    LET i == CHOOSE j \in 1..Len(s) : s[j] = x /\ \A l \in 1..(j - 1) : s[l] # x
    IN SubSeq(s, 1, i - 1) \o SubSeq(s, i + 1, Len(s))

RECURSIVE Capture(_, _, _)
Capture(s, frames, n) ==
    IF n = 0 THEN s ELSE Capture(InsertSorted(s, frames + 1), frames + 1, n - 1)

Pends(q) == IF q.currentAudio = 0 THEN {FALSE} ELSE BOOLEAN

Dirty == clean' = FALSE /\ decisionLog' = <<>>

\* startCamera through the loadedmetadata event: every listener registered so
\* far runs, sets isRunning and calls detectFaces, which finds the video not
\* yet HAVE_ENOUGH_DATA and waits for an animation frame.
StartCamera(maxStarts) ==
    /\ ~isRunning
    /\ listeners < maxStarts
    /\ listeners' = listeners + 1
    /\ isRunning' = TRUE
    /\ rafLoops' = rafLoops + listeners + 1
    /\ now' = now + 1
    /\ IF listeners = 0 THEN UNCHANGED histVars ELSE Dirty
    /\ UNCHANGED <<trackVars, seqVars, selVars, detecting, fetchFailed>>

stopCamera ==
    /\ isRunning
    /\ \E pend \in Pends(SeqState) :
         LET q == ClearTimeout(PauseCurrent(SeqState, pend)) IN
         SetSeq([q EXCEPT !.phraseDisplayData = [currentPhrase |-> NoPhrase, isVLM |-> FALSE],
                          !.isWaitingForNextMessage = FALSE,
                          !.localPhraseCount = 0,
                          !.isInPOFMode = FALSE,
                          !.pofPhrases = <<>>,
                          !.currentPOFPhraseIndex = 0,
                          !.pofRequestInProgress = FALSE])
    /\ faceMovementData' = <<>>
    /\ lastFaceId' = Null
    /\ previousDetections' = <<>>
    /\ frameCount' = 0
    /\ isRunning' = FALSE
    /\ Dirty
    /\ UNCHANGED <<selVars, listeners, rafLoops, detecting, now, fetchFailed>>

\* An animation frame: every detectFaces waiting for one runs up to its
\* await of the detector (lines 616-695), in turn.
AnimationFrame(maxTicks) ==
    /\ isRunning
    /\ rafLoops > 0
    /\ now < maxTicks
    /\ frameCount' = frameCount + rafLoops
    /\ detecting' = Capture(detecting, frameCount, rafLoops)
    /\ rafLoops' = 0
    /\ now' = now + 1
    /\ UNCHANGED <<previousDetections, faceMovementData, lastFaceId, seqVars, selVars,
                   isRunning, listeners, histVars, fetchFailed>>

\* The detector resolves for the detectFaces that captured currentTime, which
\* runs to its end (lines 697-900) and asks for the next animation frame.
\* Lines 711-900 once the phrase decision has left the sequencer in q1.
DetectFinish(u, q, q1, decides, currentTime) ==
    /\ SetSeq(q1)
    /\ faceMovementData' = u.data
    /\ previousDetections' = u.prev
    /\ lastFaceId' = IF LargestFace(u.dets) = 0 THEN lastFaceId
                     ELSE u.dets[LargestFace(u.dets)].faceId
    /\ IF clean /\ LargestFace(u.dets) # 0
          /\ ~(decides /\ DecisionKind(q, q1) = "none")
       THEN /\ clean' = TRUE
            /\ decisionLog' =
                 IF decides
                 THEN Append(decisionLog, [kind |-> DecisionKind(q, q1),
                                           audio |-> q1.currentAudio # 0,
                                           count |-> q1.localPhraseCount])
                 ELSE decisionLog
       ELSE Dirty
    /\ fetchFailed' = (fetchFailed /\ ~decides)
    /\ detecting' = RemoveOne(detecting, currentTime)
    /\ rafLoops' = rafLoops + 1
    /\ UNCHANGED <<frameCount, selVars, isRunning, listeners, now>>

\* Lines 697-760 for the result u of updateMovementTracking.
DetectTracked(u, q, decides, currentTime) ==
    \E k1 \in IF decides THEN 0..(RandomGrid - 1) ELSE {0} :
    \E k2 \in IF decides THEN 0..(RandomGrid - 1) ELSE {0} :
      DetectFinish(u, q,
                   IF LargestFace(u.dets) = 0 THEN q
                   ELSE ManagePhrases(q, u.dets, u.data, k1, k2),
                   decides, currentTime)

DetectAwaited(u, q, currentTime) ==
    DetectTracked(u, q, IsDecisionPoint(q, u.dets), currentTime)

DetectResume(inputs) ==
    \E currentTime \in Range(detecting) : \E detections \in inputs[currentTime] :
      DetectAwaited(updateMovementTracking(detections, currentTime, faceMovementData,
                                           previousDetections, frameCount, now),
                    SeqState, currentTime)

\* The audio in slot a plays to its end; also the ended event of an audio
\* that failed before.
EndedOf(a) ==
    /\ audios[a].st \in {"playing", "failed"}
    /\ SetSeq([audio_onended(SeqState, a) EXCEPT !.audios[a] = FreeAudio])
    /\ UNCHANGED <<trackVars, selVars, loopVars, now, histVars, fetchFailed>>

AudioEnded == \E a \in AudioIds : EndedOf(a)

\* After a failure signal the audio in slot a stays for one more event
\* (more) or is done with.
AfterFailure(q, a, more) ==
    [q EXCEPT !.audios[a].st = IF @ = "playing" /\ more THEN "failed" ELSE "free"]

Settled(q, a) ==
    IF q.audios[a].st = "free" THEN [q EXCEPT !.audios[a] = FreeAudio] ELSE q

\* The error event of the audio in slot a
ErrorOf(a) ==
    \E more \in BOOLEAN :
      /\ audios[a].st \in {"playing", "paused", "failed"}
      /\ (audios[a].st # "playing" => more)
      /\ \E pend \in Pends(SeqState) :
           SetSeq(Settled(audio_onerror(AfterFailure(SeqState, a, more), a, pend), a))
      /\ Dirty
      /\ UNCHANGED <<trackVars, selVars, loopVars, now, fetchFailed>>

AudioError == \E a \in AudioIds : ErrorOf(a)

\* The promise of audio.play() rejects for the audio in slot a
RejectedOf(a) ==
    \E more \in BOOLEAN :
      /\ audios[a].st \in {"playing", "paused", "failed"}
      /\ (audios[a].st # "playing" => more)
      /\ \E pend \in Pends(SeqState) :
           SetSeq(Settled(play_catch(AfterFailure(SeqState, a, more), a, pend), a))
      /\ Dirty
      /\ UNCHANGED <<trackVars, selVars, loopVars, now, fetchFailed>>

PlayRejected == \E a \in AudioIds : RejectedOf(a)

\* The delay timer of audio.onended fires (lines 455-457)
TimerFires ==
    /\ \E handle \in BOOLEAN :
         /\ IF handle THEN nextMessageTimeout = "pending" ELSE orphanTimers > 0
         /\ LET q == IF handle THEN [SeqState EXCEPT !.nextMessageTimeout = "fired"]
                     ELSE [SeqState EXCEPT !.orphanTimers = @ - 1]
            IN \E pend \in Pends(q) : SetSeq(triggerNextMessage(q, pend))
    /\ UNCHANGED <<trackVars, selVars, loopVars, now, histVars, fetchFailed>>

\* Does the answer resp leave fetchPOFPhrases without a phrase to play?
Failed(resp) ==
    \/ resp.rejected \/ ~resp.ok \/ ~resp.isArray
    \/ \E i \in 1..Len(resp.items) : ~resp.items[i].isString
    \/ \A i \in 1..Len(resp.items) : Trim(resp.items[i].chars) = <<>>

\* The awaits of one fetchPOFPhrases in flight settle
FetchCompletes(responses) ==
    /\ pofInFlight > 0
    /\ \E resp \in responses, pend \in Pends(SeqState) :
         /\ SetSeq(fetchPOFPhrases_resume(SeqState, resp, pend))
         /\ fetchFailed' = Failed(resp)
    /\ UNCHANGED <<trackVars, selVars, loopVars, now, histVars>>

\* loadPhrases (lines 13-28) when the global PHRASES_DATA is defined and is
\* data, or is not defined: the page calls it once, when it has loaded.
loadPhrases(defined, data) ==
    /\ ~ready
    /\ IF defined
       THEN phrases' = data /\ ready' = TRUE
       ELSE ready' = FALSE /\ UNCHANGED phrases
    /\ UNCHANGED <<trackVars, seqVars, loopVars, now, histVars, fetchFailed>>

\* A call phraseSelector.selectPhrase(emotion, speed) on its own
SelectOf(emotion, speed, k1, k2) ==
    /\ recentPhrases' = selectPhrase(emotion, speed, recentPhrases, k1, k2).recent
    /\ UNCHANGED <<trackVars, phraseDisplayData, currentAudio, isWaitingForNextMessage,
                   nextMessageTimeout, localPhraseCount, isInPOFMode, pofPhrases,
                   currentPOFPhraseIndex, pofRequestInProgress, audios, orphanTimers,
                   pofInFlight, selVars, loopVars, now, histVars, fetchFailed>>

SelectCall(emotions, speeds) ==
    \E emotion \in emotions, speed \in speeds :
      \E k1, k2 \in 0..(RandomGrid - 1) : SelectOf(emotion, speed, k1, k2)

\* ------------------------------------------------------------------ inputs
\* phrases.js is not part of the sources: a small catalog stands for it.
PHRASES_DATA == [happy |-> [all |-> << <<"x">> >>]]

BoxA == [x |-> 100, y |-> 100, width |-> 80, height |-> 80]
Happy == [neutral |-> 5, happy |-> 3, sad |-> 1]
Sad == [neutral |-> 1, happy |-> 1, sad |-> 1]
Detection(box, expressions) == [box |-> box, expressions |-> expressions]

\* What the detector may return for the frame captured at currentTime in
\* the sequencer's runs
SeqDetections ==
    [currentTime \in Nat |->
        { <<>>, <<Detection(BoxA, Happy)>>, <<Detection(BoxA, Sad)>> }]

Item(chars) == [isString |-> TRUE, chars |-> chars]
Response(items) == [rejected |-> FALSE, ok |-> TRUE, isArray |-> TRUE, items |-> items]
\* What the remote phrase service may answer
SeqResponses ==
    { [rejected |-> TRUE, ok |-> FALSE, isArray |-> FALSE, items |-> <<>>],
      [rejected |-> FALSE, ok |-> FALSE, isArray |-> FALSE, items |-> <<>>],
      [rejected |-> FALSE, ok |-> TRUE, isArray |-> FALSE, items |-> <<>>],
      Response(<<>>),
      Response(<<Item(<<" ">>)>>),
      Response(<<[isString |-> FALSE, chars |-> <<>>]>>),
      Response(<<Item(<<" ", "r">>)>>),
      Response(<<Item(<<"r">>), Item(<<>>), Item(<<"s", " ">>)>>) }

\* ----------------------------------------------------------- specification
\* The page after its load event: loadPhrases has succeeded or failed.
Init ==
    /\ isRunning = FALSE
    /\ frameCount = 0
    /\ previousDetections = <<>>
    /\ faceMovementData = <<>>
    /\ lastFaceId = Null
    /\ phraseDisplayData = [currentPhrase |-> NoPhrase, isVLM |-> FALSE]
    /\ currentAudio = 0
    /\ isWaitingForNextMessage = FALSE
    /\ nextMessageTimeout = "null"
    /\ localPhraseCount = 0
    /\ isInPOFMode = FALSE
    /\ pofPhrases = <<>>
    /\ currentPOFPhraseIndex = 0
    /\ pofRequestInProgress = FALSE
    /\ \E loaded \in BOOLEAN :
         /\ ready = loaded
         /\ phrases = IF loaded THEN PHRASES_DATA ELSE Null
    /\ recentPhrases = <<>>
    /\ audios = [a \in AudioIds |-> FreeAudio]
    /\ orphanTimers = 0
    /\ pofInFlight = 0
    /\ listeners = 0
    /\ rafLoops = 0
    /\ detecting = <<>>
    /\ now = 0
    /\ clean = TRUE
    /\ decisionLog = <<>>
    /\ fetchFailed = FALSE

\* One camera session: the page is loaded, the camera started once and
\* stopped; the callbacks pending at the stop still arrive after it.
Next ==
    \/ StartCamera(1)
    \/ stopCamera
    \/ AnimationFrame(MaxFrame)
    \/ DetectResume(SeqDetections)
    \/ AudioEnded
    \/ AudioError
    \/ PlayRejected
    \/ TimerFires
    \/ FetchCompletes(SeqResponses)

Spec == Init /\ [][Next]_vars

\* Sessions started again after a stop: every start adds a loadedmetadata
\* listener, and the detectFaces loops of earlier sessions are still there.
NextRestart ==
    \/ StartCamera(MaxStarts)
    \/ stopCamera
    \/ AnimationFrame(RestartFrames)
    \/ DetectResume(SeqDetections)
    \/ AudioEnded
    \/ AudioError
    \/ PlayRejected
    \/ TimerFires
    \/ FetchCompletes(SeqResponses)

RestartSpec == Init /\ [][NextRestart]_vars

\* The camera is stopped and started again while every face shows an emotion
\* the catalog has no phrase for and the remote phrase service fails: no
\* audio is ever made.
SadDetections == [currentTime \in Nat |-> { <<Detection(BoxA, Sad)>> }]

FailedResponses == {resp \in SeqResponses : Failed(resp)}

FallbackInit == Init /\ ready

FallbackNext ==
    \/ StartCamera(MaxStarts)
    \/ stopCamera
    \/ AnimationFrame(FallbackFrames)
    \/ DetectResume(SadDetections)
    \/ FetchCompletes(FailedResponses)

FallbackSpec == FallbackInit /\ [][FallbackNext]_vars

\* The tracker alone: the phrases failed to load, so the sequencer never
\* acts.  One or two faces, close to each other, come and go during one
\* camera session.
BoxB == [x |-> 160, y |-> 100, width |-> 60, height |-> 60]

TrackDetections ==
    [currentTime \in Nat |->
        { <<>>, <<Detection(BoxA, Happy)>>,
          <<Detection(BoxA, Happy), Detection(BoxB, Happy)>> }]

TrackInit == Init /\ ~ready

TrackNext ==
    \/ StartCamera(1)
    \/ stopCamera
    \/ AnimationFrame(TrackFrames)
    \/ DetectResume(TrackDetections)

TrackSpec == TrackInit /\ [][TrackNext]_vars

\* The tracker over more frames than the staleness threshold: a face is in
\* view in the first frame of a session only, whose detection may take
\* long while every other detection is over before the next animation
\* frame, and the user stops the camera right after the first frame or
\* after the threshold has passed.
StaleDetections ==
    [currentTime \in Nat |->
        IF currentTime = 1 THEN { <<Detection(BoxA, Happy)>> } ELSE { <<>> }]

StaleNext ==
    \/ StartCamera(MaxStarts)
    \/ (frameCount <= 1 \/ frameCount > StaleFrames + 1) /\ stopCamera
    \/ (\A f \in Range(detecting) : f = 1) /\ AnimationFrame(StaleTicks)
    \/ DetectResume(StaleDetections)

StaleSpec == TrackInit /\ [][StaleNext]_vars

\* -------------------------------------------------------------- properties
Playing == {a \in AudioIds : audios[a].st = "playing"}

\* C1: at most one phrase audio is playing in every reachable state, and it
\* is the current audio: when playPhraseAudio starts an audio, every audio
\* started before it has ended, failed or been paused.
C1_AtMostOnePlaying ==
    /\ Cardinality(Playing) <= 1
    /\ \A a \in Playing : currentAudio = a

\* playPhraseAudio has started an audio while the one before it, paused by
\* the code, still awaits the rejection of its play().
C1_Witness ==
    \E a, b \in AudioIds :
      audios[a].st = "playing" /\ currentAudio = a /\ audios[b].st = "paused"

\* The decisions of a fresh session in which every frame had a primary face,
\* every local selection returned a phrase and no audio failed
LocalThenFetch ==
    << [kind |-> "local", audio |-> TRUE, count |-> 1],
       [kind |-> "local", audio |-> TRUE, count |-> 2],
       [kind |-> "local", audio |-> TRUE, count |-> 3],
       [kind |-> "fetch", audio |-> FALSE, count |-> 0] >>

BatchDone == pofInFlight = 0 /\ ~isInPOFMode

\* C2: in such a session the first three decision points each play a local
\* phrase with the local counter at 1, 2, 3, the fourth starts a remote fetch
\* and plays nothing, and the counter is 0 once the remote batch is over.
C2_ThreeLocalsThenFetch ==
    clean =>
      /\ \A i \in 1..Len(decisionLog) : i <= 4 => decisionLog[i] = LocalThenFetch[i]
      /\ (Len(decisionLog) = 4 /\ BatchDone => localPhraseCount = 0)

\* The last item of a remote batch of two has completed and its delay
\* timer has fired.
C2_Witness ==
    /\ clean /\ Len(decisionLog) = 4 /\ BatchDone
    /\ phraseDisplayData = [currentPhrase |-> <<"s">>, isVLM |-> TRUE]
    /\ currentAudio = 0 /\ nextMessageTimeout = "fired"

\* C3: after an audio has completed, no phrase starts playing and no remote
\* fetch starts until the delay timer set by that completion has fired: while
\* the timer is pending, a step that is not its firing starts neither.
C3_NothingBeforeTimer ==
    [][nextMessageTimeout = "pending" /\ ~TimerFires
         => currentAudio' = 0 /\ pofInFlight' <= pofInFlight]_vars

\* The sequencer and tracking state that stopCamera resets
stoppedVars ==
    <<phraseDisplayData, currentAudio, isWaitingForNextMessage, nextMessageTimeout,
      localPhraseCount, isInPOFMode, pofPhrases, currentPOFPhraseIndex,
      pofRequestInProgress, previousDetections, faceMovementData, lastFaceId,
      frameCount>>

\* C5: while the camera is stopped, no callback started before the stop
\* starts an audio, sets the displayed phrase or changes the sequencer or
\* tracking state: that state stays as stopCamera left it.
C5_QuietWhileStopped ==
    [][~isRunning /\ ~isRunning' => UNCHANGED stoppedVars]_vars

\* C6: at most one remote fetch is in flight, and pofRequestInProgress is
\* true exactly while one is.
C6_OneFetchFlagged ==
    /\ pofInFlight <= 1
    /\ pofRequestInProgress <=> pofInFlight > 0

\* C7: at most one detectFaces is in progress, between its increment of the
\* frame counter and the end of its frame, whatever the starts and stops.
C7_OneDetectFaces == Len(detecting) <= 1

\* What the sequence of phrases consists of, apart from the audio objects
sequenceVars ==
    <<phraseDisplayData, currentAudio, isWaitingForNextMessage, nextMessageTimeout,
      localPhraseCount, isInPOFMode, pofPhrases, currentPOFPhraseIndex,
      pofRequestInProgress, recentPhrases, pofInFlight>>

\* The first failure signal (error event or rejected play) of the current audio
FirstFailure(a) ==
    /\ currentAudio = a /\ audios[a].st = "playing" /\ ~audios[a].audioErrored
    /\ ErrorOf(a) \/ RejectedOf(a)

\* A further failure signal of an audio that has failed
SecondFailure(a) == audios[a].audioErrored /\ (ErrorOf(a) \/ RejectedOf(a))

\* C9: the step in which the current audio fails leaves no delay timer
\* pending and, in remote mode with items remaining, starts the next item at
\* once; otherwise it leaves no current audio and no displayed phrase.  A
\* further failure signal of the same audio, and its later ended event,
\* change nothing of the sequence.
C9_FailureAdvancesOnce ==
    [][\A a \in AudioIds :
         /\ FirstFailure(a) =>
              /\ nextMessageTimeout' # "pending"
              /\ IF isInPOFMode /\ currentPOFPhraseIndex + 1 < Len(pofPhrases)
                 THEN /\ currentPOFPhraseIndex' = currentPOFPhraseIndex + 1
                      /\ currentAudio' # 0
                      /\ audios'[currentAudio'] = [st |-> "playing", audioErrored |-> FALSE]
                      /\ phraseDisplayData' =
                           [currentPhrase |-> pofPhrases[currentPOFPhraseIndex + 2],
                            isVLM |-> TRUE]
                 ELSE /\ currentAudio' = 0
                      /\ phraseDisplayData'.currentPhrase = NoPhrase
         /\ SecondFailure(a) => UNCHANGED sequenceVars
         /\ audios[a].audioErrored /\ EndedOf(a) => UNCHANGED sequenceVars]_vars

\* The first item of a remote batch has failed and may still signal; the
\* second item is playing.
C9_Witness ==
    \E a \in AudioIds :
      /\ audios[a] = [st |-> "failed", audioErrored |-> TRUE]
      /\ isInPOFMode /\ currentPOFPhraseIndex = 1
      /\ currentAudio \notin {0, a}
      /\ phraseDisplayData = [currentPhrase |-> <<"s">>, isVLM |-> TRUE]

\* C8: a remote fetch that fails or brings no phrase leaves the sequencer in
\* local mode with an empty batch, index 0, the waiting flag and the
\* fetch-in-flight flag clear, and displays and plays nothing; and the first
\* decision point after it starts no other fetch.
C8_FallbackToLocal ==
    [][/\ FetchCompletes(FailedResponses) =>
            /\ ~isInPOFMode' /\ pofPhrases' = <<>> /\ currentPOFPhraseIndex' = 0
            /\ ~isWaitingForNextMessage' /\ ~pofRequestInProgress'
            /\ UNCHANGED <<phraseDisplayData, currentAudio, audios>>
       /\ fetchFailed /\ ~fetchFailed' => pofInFlight' <= pofInFlight]_vars

\* C4: the detections of one frame carry different identities: no previous
\* detection is claimed by two detections of the frame.
C4_OneToOne ==
    \A i, j \in 1..Len(previousDetections) :
      previousDetections[i].faceId = previousDetections[j].faceId => i = j

\* C10: after the tracking update of the frame captured at f, every identity
\* left in the tracker is among the frame's detections or was last updated
\* at most 30 frames before f.
C10_StaleRemoved ==
    [][\A f \in Range(detecting) :
         detecting' = RemoveOne(detecting, f) =>
           \A id \in DOMAIN faceMovementData' :
             \/ \E i \in 1..Len(previousDetections') : previousDetections'[i].faceId = id
             \/ f - faceMovementData'[id].lastTime <= StaleFrames]_vars

\* The tracker following a moving face during one camera session.  In the
\* frame captured at currentTime the detector finds nothing, or a face that
\* glides 10 units a frame to the right, or one that glides 20 units a
\* frame, or a face exactly MatchThreshold units to the right of where the
\* slow face was one frame earlier, or the slow face and a second face more
\* than MatchThreshold units below.
BoxAt(x) == [x |-> x, y |-> 100, width |-> 80, height |-> 80]
BoxFar == [x |-> 80, y |-> 230, width |-> 60, height |-> 60]

MoveDetections ==
    [currentTime \in Nat |->
        { <<>>,
          <<Detection(BoxAt(10 * currentTime), Happy)>>,
          <<Detection(BoxAt(20 * currentTime), Happy)>>,
          <<Detection(BoxAt(10 * (currentTime - 1) + MatchThreshold), Happy)>>,
          <<Detection(BoxAt(10 * currentTime), Happy), Detection(BoxFar, Happy)>> }]

MoveNext ==
    \/ StartCamera(1)
    \/ stopCamera
    \/ AnimationFrame(MoveFrames)
    \/ DetectResume(MoveDetections)

MoveSpec == TrackInit /\ [][MoveNext]_vars

\* What detectFaces hands to the phrase selection for a face (lines 734-735)
SpeedForSelection(data, faceId) ==
    LET speedData == getAverageSpeed(data, faceId)
    IN IF speedData # Null THEN speedData.avgSpeed ELSE Null

\* C11: whatever the detector returned so far, getAverageSpeed of a tracked
\* identity is null while the identity has fewer than MIN_FRAMES_FOR_SPEED
\* samples; from then on it is an average that is the mean of the samples
\* and not negative, with a per-second value of Fps times the average.  An
\* unknown speed reaches the phrase selection as null, which is not the
\* number 0.
C11_UnknownThenNonNegative ==
    \A faceId \in DOMAIN faceMovementData :
      LET speeds == faceMovementData[faceId].speeds
          speedData == getAverageSpeed(faceMovementData, faceId)
      IN /\ \A i \in 1..Len(speeds) : speeds[i][1] >= 0 /\ speeds[i][2] > 0
         /\ Len(speeds) <= SPEED_WINDOW_SIZE
         /\ IF Len(speeds) < MIN_FRAMES_FOR_SPEED
            THEN /\ speedData = Null
                 /\ SpeedForSelection(faceMovementData, faceId) = Null
                 /\ SpeedForSelection(faceMovementData, faceId) # <<0, 1>>
            ELSE /\ speedData # Null
                 /\ RatLeq(<<0, 1>>, speedData.avgSpeed)
                 /\ RatLeq(<<0, 1>>, speedData.speedPerSecond)
                 /\ speedData.avgSpeed[1] * Len(speeds) * RatSum(speeds)[2]
                      = RatSum(speeds)[1] * speedData.avgSpeed[2]
                 /\ speedData.speedPerSecond[1] * speedData.avgSpeed[2]
                      = Fps * speedData.avgSpeed[1] * speedData.speedPerSecond[2]

\* An identity has been followed for so long that its speed is known and
\* not zero, while another identity's speed is still unknown.
C11_Witness ==
    \E known, unknown \in DOMAIN faceMovementData :
      /\ Len(faceMovementData[known].speeds) >= MIN_FRAMES_FOR_SPEED
      /\ getAverageSpeed(faceMovementData, known) # Null
      /\ RatLess(<<0, 1>>, getAverageSpeed(faceMovementData, known).avgSpeed)
      /\ Len(faceMovementData[unknown].speeds) \in 1..(MIN_FRAMES_FOR_SPEED - 1)
      /\ getAverageSpeed(faceMovementData, unknown) = Null

\* The phrase selector alone, from its construction: the page loads a
\* catalog, or fails to, and selectPhrase is called with every emotion and
\* with speeds at and around the breakpoints.
Phrase(name) == <<name>>

\* Each bucket has a phrase of its own; the phrase for happy faces at medium
\* speed is also in the global bucket for medium speed.
FullCatalog ==
    [happy |-> [lo |-> <<Phrase("a")>>, med |-> <<Phrase("b")>>,
                hi |-> <<Phrase("c")>>, all |-> <<Phrase("d")>>],
     sad |-> [med |-> <<Phrase("e")>>],
     all |-> [lo |-> <<Phrase("f")>>, med |-> <<Phrase("b")>>, all |-> <<Phrase("g")>>]]

\* A catalog with nothing for most combinations
SparseCatalog ==
    [happy |-> [lo |-> <<Phrase("a")>>],
     sad |-> [all |-> <<>>]]

\* PHRASES_DATA may also be null, which loadPhrases takes for a catalog.
CatalogData == {FullCatalog, SparseCatalog, Null}

Emotions == {"happy", "sad", "angry"}

Speeds == {Null, <<SpeedLo - 1, 1>>, <<SpeedLo, 1>>, <<SpeedHi, 1>>, <<SpeedHi + 1, 1>>}

SelectorInit == Init /\ phrases = Null

SelectorNext ==
    \/ \E defined \in BOOLEAN, data \in CatalogData : loadPhrases(defined, data)
    \/ SelectCall(Emotions, Speeds)

SelectorSpec == SelectorInit /\ [][SelectorNext]_vars

\* The candidates of a call, as the four buckets name them
FourBuckets(emotion, category) ==
    Range(Bucket(emotion, category)) \cup Range(Bucket(emotion, "all"))
      \cup Range(Bucket("all", category)) \cup Range(Bucket("all", "all"))

\* C12: among the candidates of a call that are in the history, the phrase
\* used last (position 0) has the lowest weight and the weight grows with
\* the position, towards 1 for the oldest entries; every weight is above 0
\* and a candidate outside the history weighs exactly 1.
C12_RecentWeighsLeast ==
    \A emotion \in Emotions, speed \in Speeds :
      LET available == getPhrasesForCombination(emotion, getSpeedCategory(speed))
          at(phrase) == IndexOf(recentPhrases, phrase)
          weight(phrase) == PhraseWeight(phrase, recentPhrases)
      IN \A p, q \in Range(available) :
           /\ weight(p) > 0
           /\ at(p) < 0 => weight(p) = WeightUnit
           /\ at(p) >= 0 => weight(p) < WeightUnit
           /\ (at(p) >= 0 /\ at(p) < at(q)) => weight(p) < weight(q)

\* C13: whatever the catalog, the emotion, the speed and the random draws, a
\* phrase returned by selectPhrase is in one of the four buckets (emotion,
\* category), (emotion, all), (all, category), (all, all) for the category of
\* the speed given.
C13_ResultIsCandidate ==
    \A emotion \in Emotions, speed \in Speeds :
      \A k1, k2 \in 0..(RandomGrid - 1) :
        LET result == selectPhrase(emotion, speed, recentPhrases, k1, k2)
        IN result.phrase # NoPhrase
             => result.phrase \in FourBuckets(emotion, getSpeedCategory(speed))

\* Phrases of three different buckets have been returned, while the catalog
\* has phrases for another emotion and for other speeds.
C13_Witness ==
    /\ phrases = FullCatalog
    /\ {Phrase("a"), Phrase("d"), Phrase("g")} \subseteq Range(recentPhrases)
    /\ Phrase("e") \notin Range(recentPhrases)

NoDuplicates(s) == \A i, j \in 1..Len(s) : s[i] = s[j] => i = j

\* C14: the history has no duplicates and at most maxRecentHistory entries,
\* before and after every call of selectPhrase.  A call that returns a
\* phrase puts it first, keeps the other entries in their order, and drops
\* an entry only beyond the capacity, the last one; a call that returns
\* nothing leaves the history as it was.
C14_HistoryMoveToFront ==
    /\ NoDuplicates(recentPhrases)
    /\ Len(recentPhrases) <= maxRecentHistory
    /\ \A emotion \in Emotions, speed \in Speeds :
         \A k1, k2 \in 0..(RandomGrid - 1) :
           LET result == selectPhrase(emotion, speed, recentPhrases, k1, k2)
               returned == result.phrase
               after == result.recent
               others == SelectSeq(recentPhrases, LAMBDA p : p # returned)
           IN /\ NoDuplicates(after)
              /\ Len(after) <= maxRecentHistory
              /\ returned = NoPhrase => after = recentPhrases
              /\ returned # NoPhrase =>
                   /\ after[1] = returned
                   /\ Tail(after) = SubSeq(others, 1, Len(after) - 1)
                   /\ Len(others) < maxRecentHistory => Len(after) = Len(others) + 1
                   /\ Len(others) = maxRecentHistory
                        => after = <<returned>> \o SubSeq(recentPhrases, 1,
                                                          maxRecentHistory - 1)

\* The history is full and a call can return a phrase that is not in it.
C14_Witness ==
    /\ Len(recentPhrases) = maxRecentHistory
    /\ \E emotion \in Emotions, speed \in Speeds :
         \E k1, k2 \in 0..(RandomGrid - 1) :
           LET returned == selectPhrase(emotion, speed, recentPhrases, k1, k2).phrase
           IN returned # NoPhrase /\ returned \notin Range(recentPhrases)

\* The category the breakpoints 300 and 1000 give the speed n / d
CategoryByBreakpoints(n, d) ==
    IF n < 300 * d THEN "lo" ELSE IF n <= 1000 * d THEN "med" ELSE "hi"

\* C15: getSpeedCategory gives lo below 300, med from 300 to 1000 and hi
\* above 1000, for whole speeds and for speeds half-way between them, and
\* med for an unknown speed: 299 is lo, 300 and 1000 are med, 1001 is hi.
\* selectPhrase offers the phrases of that category.
\* getSpeedCategory agrees with the breakpoints on every whole speed up to
\* MaxSpeed and on the speeds half-way between them.
CategoriesUpToMaxSpeed ==
    \A n \in (-1)..MaxSpeed :
      /\ getSpeedCategory(<<n, 1>>) = CategoryByBreakpoints(n, 1)
      /\ getSpeedCategory(<<2 * n + 1, 2>>) = CategoryByBreakpoints(2 * n + 1, 2)

C15_SpeedCategories ==
    /\ CategoriesUpToMaxSpeed
    /\ getSpeedCategory(Null) = "med"
    /\ getSpeedCategory(<<299, 1>>) = "lo"
    /\ getSpeedCategory(<<300, 1>>) = "med"
    /\ getSpeedCategory(<<1000, 1>>) = "med"
    /\ getSpeedCategory(<<1001, 1>>) = "hi"
    /\ \A emotion \in Emotions, speed \in Speeds :
         \A k1, k2 \in 0..(RandomGrid - 1) :
           LET result == selectPhrase(emotion, speed, recentPhrases, k1, k2)
               category == IF speed = Null THEN "med"
                           ELSE CategoryByBreakpoints(speed[1], speed[2])
           IN result.phrase # NoPhrase => result.phrase \in FourBuckets(emotion, category)

\* Calls with slow, medium and fast speeds have each returned the phrase
\* that only their category has.
C15_Witness ==
    /\ phrases = FullCatalog
    /\ {Phrase("a"), Phrase("b"), Phrase("c")} \subseteq Range(recentPhrases)

\* C17: when selectPhrase has returned a phrase, that phrase weighs at most
\* 1/2 in the next call, whatever emotion and speed the next call has, and
\* every candidate of the next call that is not in the history weighs 1.
C17_JustUsedAtMostHalf ==
    \A result \in {selectPhrase(emotion, speed, recentPhrases, k1, k2) :
                     emotion \in Emotions, speed \in Speeds,
                     k1 \in 0..(RandomGrid - 1), k2 \in 0..(RandomGrid - 1)} :
           result.phrase # NoPhrase =>
             /\ 2 * PhraseWeight(result.phrase, result.recent) <= WeightUnit
             /\ \A nextEmotion \in Emotions, nextSpeed \in Speeds :
                  \A p \in Range(getPhrasesForCombination(nextEmotion,
                                                          getSpeedCategory(nextSpeed))) :
                    IndexOf(result.recent, p) < 0
                      => PhraseWeight(p, result.recent) = WeightUnit

\* The phrase returned last is a candidate of a next call, next to a
\* candidate that has not been used.
C17_Witness ==
    /\ recentPhrases # <<>>
    /\ \E emotion \in Emotions, speed \in Speeds :
         LET available == Range(getPhrasesForCombination(emotion, getSpeedCategory(speed)))
         IN /\ recentPhrases[1] \in available
            /\ \E p \in available : p \notin Range(recentPhrases)

\* C20: selectPhrase returns nothing and leaves the history as it is when
\* the catalog is not loaded or the four buckets of the call are empty or
\* missing.
C20_NothingWithoutCandidates ==
    \A emotion \in Emotions, speed \in Speeds :
      \A k1, k2 \in 0..(RandomGrid - 1) :
        LET result == selectPhrase(emotion, speed, recentPhrases, k1, k2)
        IN (~ready \/ phrases = Null \/ FourBuckets(emotion, getSpeedCategory(speed)) = {})
             => result.phrase = NoPhrase /\ result.recent = recentPhrases

\* A catalog is loaded that has nothing for some call, after a call that
\* returned a phrase.
C20_Witness ==
    /\ ready
    /\ recentPhrases # <<>>
    /\ \E emotion \in Emotions, speed \in Speeds :
         FourBuckets(emotion, getSpeedCategory(speed)) = {}

\* The last n entries of s, all of s if it has fewer
LastN(s, n) == IF Len(s) > n THEN SubSeq(s, Len(s) - n + 1, Len(s)) ELSE s

FiveTens == [i \in 1..5 |-> <<10, 1>>]

\* C16: between two consecutive frames with one face each, a face whose
\* centre has moved 20 units keeps its identity; a face that has moved
\* exactly 10 units to the right keeps its identity and gets 10 as its
\* newest sample, the window keeping the last 5; once the window holds five
\* samples of 10 the speed is known, its per-second value is 300 and the
\* category of 300 is med.
C16_GlidingFace ==
    [][(/\ Len(previousDetections) = 1
        /\ Len(previousDetections') = 1
        /\ previousDetections'[1].timestamp = previousDetections[1].timestamp + 1)
       => LET before == previousDetections[1]
              after == previousDetections'[1]
              faceId == after.faceId
              speedData == getAverageSpeed(faceMovementData', faceId)
          IN /\ distance(before, after) = <<20, 1>> => faceId = before.faceId
             /\ (/\ after.x = before.x + 10 /\ after.y = before.y
                 /\ after.width = before.width /\ after.height = before.height)
                => /\ faceId = before.faceId
                   /\ faceMovementData'[faceId].speeds
                        = LastN(Append(faceMovementData[faceId].speeds, <<10, 1>>), 5)
                   /\ faceMovementData'[faceId].speeds = FiveTens
                        => /\ speedData # Null
                           /\ speedData.sampleCount = 5
                           /\ speedData.speedPerSecond = <<300, 1>>
                           /\ getSpeedCategory(speedData.speedPerSecond) = "med"
      ]_vars

\* One face has moved 10 units a frame for five frames.
C16_Witness ==
    /\ Len(previousDetections) = 1
    /\ previousDetections[1].faceId \in DOMAIN faceMovementData
    /\ faceMovementData[previousDetections[1].faceId].speeds = FiveTens
    /\ getAverageSpeed(faceMovementData, previousDetections[1].faceId).speedPerSecond
         = <<300, 1>>

\* The positions in the snapshot prev of the detections whose centre is
\* less than 100 units from the centre of box
Near(box, prev) ==
    {j \in 1..Len(prev) : RatLess(distance(box, prev[j]), <<100, 1>>)}

\* C18: in every tracking update, a detection with exactly one detection of
\* the previous snapshot less than 100 units away gets the identity of that
\* detection, and a detection with none gets a new identity, made of the
\* frame counter, its position in the frame and the clock, that no
\* detection of the previous snapshot has.
C18_MatchByDistance ==
    [][previousDetections' # previousDetections =>
         \A i \in 1..Len(previousDetections') :
           LET current == previousDetections'[i]
               near == Near(current, previousDetections)
           IN /\ \A j \in near : near = {j} => current.faceId = previousDetections[j].faceId
              /\ near = {} =>
                   /\ current.faceId = <<frameCount, i - 1, now>>
                   /\ \A j \in 1..Len(previousDetections) :
                        previousDetections[j].faceId # current.faceId
      ]_vars

\* A frame with two faces: one continues an identity of an earlier frame,
\* the other one got an identity in this frame.
C18_Witness ==
    \E i, j \in 1..Len(previousDetections) :
      /\ previousDetections[i].faceId[1] < previousDetections[i].timestamp
      /\ previousDetections[j].faceId[1] = previousDetections[j].timestamp

\* C19: an identity given to a detection that matches no detection of the
\* previous snapshot is new: no tracked identity has it, and no other
\* detection of the frame gets it.
C19_FreshIdentity ==
    [][previousDetections' # previousDetections =>
         \A i \in 1..Len(previousDetections') :
           matchFaceToPrevious(previousDetections'[i], previousDetections) = -1
             => /\ previousDetections'[i].faceId \notin DOMAIN faceMovementData
                /\ \A j \in 1..Len(previousDetections') :
                     previousDetections'[j].faceId = previousDetections'[i].faceId => j = i
      ]_vars

\* C21: the state stopCamera leaves, whatever the state it is called in: no
\* current audio and no audio playing, no delay timer pending, an empty
\* tracker map and snapshot, frame counter 0, and the sequencer as at the
\* start: not waiting, local counter 0, local mode, empty batch, index 0,
\* fetch flag clear, no phrase displayed.
C21_StopResets ==
    [][stopCamera =>
         /\ currentAudio' = 0
         /\ \A a \in AudioIds : audios'[a].st # "playing"
         /\ nextMessageTimeout' = "null" /\ orphanTimers' = 0
         /\ faceMovementData' = <<>> /\ previousDetections' = <<>>
         /\ frameCount' = 0
         /\ ~isWaitingForNextMessage' /\ localPhraseCount' = 0 /\ ~isInPOFMode'
         /\ pofPhrases' = <<>> /\ currentPOFPhraseIndex' = 0
         /\ ~pofRequestInProgress'
         /\ phraseDisplayData' = [currentPhrase |-> NoPhrase, isVLM |-> FALSE]
         /\ ~isRunning'
      ]_vars

\* The camera has been stopped while an audio was starting to play.
C21_Witness ==
    /\ ~isRunning /\ listeners > 0
    /\ currentAudio = 0 /\ frameCount = 0 /\ localPhraseCount = 0
    /\ \E a \in AudioIds : audios[a].st = "paused"

\* The window length the README gives for the speed average.
ReadmeWindow == 30

IsPrefix(s, t) == Len(s) <= Len(t) /\ SubSeq(t, 1, Len(s)) = s

\* C22: the per-identity window keeps up to 30 most recent speed samples:
\* when a tracking update adds samples to an identity whose window is not at
\* that capacity, the samples it had all stay, in order, before the new ones;
\* only a window beyond 30 samples loses its oldest.
C22_WindowOfThirty ==
    [][\A id \in DOMAIN faceMovementData \cap DOMAIN faceMovementData' :
          /\ faceMovementData'[id] # faceMovementData[id]
          /\ Len(faceMovementData[id].speeds) + 2 <= ReadmeWindow
          => /\ IsPrefix(faceMovementData[id].speeds, faceMovementData'[id].speeds)
             /\ Len(faceMovementData'[id].speeds) <= ReadmeWindow
      ]_vars

\* The batch item at the current index is the phrase shown and being played.
ItemPlaying(q) ==
    /\ q.currentPOFPhraseIndex < Len(q.pofPhrases)
    /\ q.phraseDisplayData =
           [currentPhrase |-> q.pofPhrases[q.currentPOFPhraseIndex + 1], isVLM |-> TRUE]
    /\ q.currentAudio # 0 /\ q.audios[q.currentAudio].st = "playing"

\* The step is a frame tick: a frame is requested or a detection resolves.
FrameTick == detecting' # detecting

batchVars ==
    <<currentAudio, audios, phraseDisplayData, isWaitingForNextMessage,
      nextMessageTimeout, localPhraseCount, isInPOFMode, pofPhrases,
      currentPOFPhraseIndex, pofRequestInProgress, pofInFlight>>

\* C23: an accepted remote batch is played in index order.  Accepting it
\* starts item 0; while the batch lasts it is not replaced and the index moves
\* only from i to i+1, starting item i+1; no
\* frame tick changes the sequencer (no local phrase, no fetch) while the
\* batch lasts; the batch is left only from its last item, and outside a
\* batch the sequencer holds an empty batch and index 0.
C23_BatchInOrder ==
    [][/\ ~isInPOFMode /\ isInPOFMode'
          => currentPOFPhraseIndex' = 0 /\ ItemPlaying(SeqState')
       /\ isInPOFMode /\ isInPOFMode'
          => /\ pofPhrases' = pofPhrases
             /\ currentPOFPhraseIndex' \in {currentPOFPhraseIndex, currentPOFPhraseIndex + 1}
             /\ currentPOFPhraseIndex' # currentPOFPhraseIndex
                => ItemPlaying(SeqState')
       /\ isInPOFMode /\ FrameTick => UNCHANGED batchVars
       /\ isInPOFMode /\ ~isInPOFMode' /\ ~stopCamera
          => currentPOFPhraseIndex = Len(pofPhrases) - 1
       /\ ~isInPOFMode' => pofPhrases' = <<>> /\ currentPOFPhraseIndex' = 0
      ]_vars


\* The camera is stopped and started again while every face shows an emotion
\* the catalog has no phrase for and the remote phrase service answers with
\* a batch: every audio is a batch item.
AcceptedResponses == SeqResponses \ FailedResponses

BatchNext ==
    \/ StartCamera(MaxStarts)
    \/ stopCamera
    \/ AnimationFrame(FallbackFrames)
    \/ DetectResume(SadDetections)
    \/ FetchCompletes(AcceptedResponses)
    \/ AudioEnded
    \/ TimerFires

BatchSpec == FallbackInit /\ [][BatchNext]_vars


\* One camera session that is never stopped, with the catalog loaded and a
\* face in every frame.  What the browser guarantees is stated as fairness:
\* a playing audio ends or fails, an event still due to an audio that failed
\* is delivered, a set timer fires, and a fetch in flight settles.  Frames
\* come as they may.
FaceDetections ==
    [currentTime \in Nat |-> { <<Detection(BoxA, Happy)>>, <<Detection(BoxA, Sad)>> }]

SettlesIn(states) ==
    \E a \in AudioIds :
        audios[a].st \in states /\ (EndedOf(a) \/ ErrorOf(a) \/ RejectedOf(a))

LiveNext ==
    \/ StartCamera(1)
    \/ AnimationFrame(MaxFrame)
    \/ DetectResume(FaceDetections)
    \/ AudioEnded
    \/ AudioError
    \/ PlayRejected
    \/ TimerFires
    \/ FetchCompletes(SeqResponses)

LiveSpec ==
    /\ FallbackInit
    /\ [][LiveNext]_vars
    /\ WF_vars(SettlesIn({"playing"}))
    /\ WF_vars(SettlesIn({"paused", "failed"}))
    /\ WF_vars(TimerFires)
    /\ WF_vars(FetchCompletes(SeqResponses))

\* The sequencer is where the next frame with a face is a decision point.
ReadyToDecide ==
    currentAudio = 0 /\ ~isWaitingForNextMessage /\ ~isInPOFMode /\ ready

\* C24: with the catalog loaded, a face in every frame, and every audio,
\* fetch and timer settling, a set waiting flag is eventually cleared, remote
\* mode is eventually left, and the sequencer is again and again where the
\* next frame is a decision point.
\* There it stays until a detection resolves, and that detection is a
\* decision point (local selection or fetch): it changes the local counter.
C24_NeverStuck ==
    /\ isWaitingForNextMessage ~> ~isWaitingForNextMessage
    /\ isInPOFMode ~> ~isInPOFMode
    /\ []<>ReadyToDecide
    /\ [][ReadyToDecide /\ ~ReadyToDecide' => Len(detecting') < Len(detecting)]_vars
    /\ [][ReadyToDecide /\ Len(detecting') < Len(detecting)
             => localPhraseCount' # localPhraseCount]_vars

\* A decision point has been reached again after the fetch of the fourth
\* decision has settled, and the audio it started has failed.
C24_Witness ==
    /\ ReadyToDecide /\ pofInFlight = 0 /\ localPhraseCount > 0
    /\ frameCount > LOCAL_PHRASES_BEFORE_POF + 1
    /\ \E a \in AudioIds : audios[a].st = "failed"


\* One camera session with the full catalog loaded: a happy face glides to
\* the right by 10 units a frame, which is 300 units a second.
GlideDetections ==
    [currentTime \in Nat |-> { <<Detection(BoxAt(10 * currentTime), Happy)>> }]

GlideNext ==
    \/ loadPhrases(TRUE, FullCatalog)
    \/ StartCamera(1)
    \/ AnimationFrame(MoveFrames)
    \/ DetectResume(GlideDetections)
    \/ AudioEnded
    \/ TimerFires

GlideSpec == SelectorInit /\ [][GlideNext]_vars

\* C25: a local phrase that a frame selects for its primary face comes from
\* the buckets of the face's emotion and of the category of the per-second
\* speed reported for the face in that frame, when that speed is defined.
C25_SelectedAsShown ==
    [][LET speedData == getAverageSpeed(faceMovementData', lastFaceId')
       IN /\ Len(detecting') < Len(detecting)
          /\ currentAudio = 0 /\ currentAudio' # 0 /\ ~phraseDisplayData'.isVLM
          /\ speedData # Null
          => phraseDisplayData'.currentPhrase
               \in FourBuckets(DominantEmotionX(Happy),
                               getSpeedCategory(speedData.speedPerSecond))
      ]_vars


\* C26: a playing audio is never paused or replaced by the start of another
\* phrase: unless the camera is stopped, the current audio stays current and
\* playing until its own ended event, error event or rejected play.
C26_NeverInterrupted ==
    [][/\ currentAudio # 0 /\ audios[currentAudio].st = "playing"
       /\ ~stopCamera
       /\ ~EndedOf(currentAudio) /\ ~ErrorOf(currentAudio) /\ ~RejectedOf(currentAudio)
       => currentAudio' = currentAudio /\ audios'[currentAudio].st = "playing"
      ]_vars


BoxOf(p) == [x |-> p.x, y |-> p.y, width |-> p.width, height |-> p.height]

\* The annotated detections of the tracking update whose snapshot is snap,
\* made from the state before it: each with the time delta the update used.
UpdateOf(snap) ==
    updateMovementTracking([i \in 1..Len(snap) |-> Detection(BoxOf(snap[i]), Happy)],
                           snap[1].timestamp, faceMovementData, previousDetections,
                           frameCount, now)

\* C27: in every tracking update, a matched detection's time delta is at
\* least 1, and an identity the update creates has no speed sample after it.
C27_DeltaAtLeastOne ==
    [][Len(detecting') < Len(detecting) /\ previousDetections' # <<>>
       => /\ \A i \in 1..Len(previousDetections') :
               LET d == UpdateOf(previousDetections').dets[i]
               IN d.matched => d.timeDelta >= 1
          /\ \A id \in DOMAIN faceMovementData' \ DOMAIN faceMovementData :
               faceMovementData'[id].speeds = <<>>
      ]_vars


\* C28: a tracking update with an empty detection list empties the snapshot
\* and deletes the identities last seen more than 30 frames before the
\* current frame counter; every other identity stays, with the same box,
\* last-seen frame and samples, and no identity is created.
C28_EmptyUpdateOnlySweeps ==
    [][Len(detecting') < Len(detecting) /\ previousDetections' = <<>>
       => /\ DOMAIN faceMovementData' =
               {id \in DOMAIN faceMovementData :
                    frameCount - faceMovementData[id].lastTime <= StaleFrames}
          /\ \A id \in DOMAIN faceMovementData' :
               faceMovementData'[id] = faceMovementData[id]
          /\ lastFaceId' = lastFaceId
      ]_vars

\* The identity made in frame 1 of the running session has been swept by an
\* update without detections, more than 30 frames later.
C28_Witness ==
    /\ isRunning
    /\ frameCount > StaleFrames + 1 /\ 1 \notin Range(detecting)
    /\ faceMovementData = <<>> /\ previousDetections = <<>>


\* One camera session in which every face shows an emotion the catalog has
\* no phrase for: the only audios are the items of remote batches.
EmptyNext ==
    \/ StartCamera(1)
    \/ stopCamera
    \/ AnimationFrame(MaxFrame)
    \/ DetectResume(SadDetections)
    \/ AudioEnded
    \/ AudioError
    \/ PlayRejected
    \/ TimerFires
    \/ FetchCompletes(SeqResponses)

EmptySpec == FallbackInit /\ [][EmptyNext]_vars

\* The step is a decision point: a detection with a face resolves while no
\* audio is current, the sequencer is not waiting, the catalog is loaded and
\* the sequencer is in local mode.
DecisionStep ==
    /\ Len(detecting') < Len(detecting) /\ previousDetections' # <<>>
    /\ ReadyToDecide

IdsOf(snap) == {snap[i].faceId : i \in 1..Len(snap)}

\* C30: an identity of the map that no detection of the last processed
\* frame was assigned to is assigned to no detection of the next processed
\* frame, and its entry is not changed by that frame's update.
C30_NoReturn ==
    [][Len(detecting') < Len(detecting)
       => \A id \in DOMAIN faceMovementData \ IdsOf(previousDetections) :
            /\ id \notin IdsOf(previousDetections')
            /\ id \in DOMAIN faceMovementData'
               => faceMovementData'[id] = faceMovementData[id]
      ]_vars


\* C31: in every state between two events the local counter is between 0
\* and LOCAL_PHRASES_BEFORE_POF; in remote mode the batch index is at least
\* 0 and below the length of the batch; outside remote mode the batch is
\* empty and the index is 0.
C31_CountersInRange ==
    /\ 0 <= localPhraseCount /\ localPhraseCount <= LOCAL_PHRASES_BEFORE_POF
    /\ isInPOFMode
       => 0 <= currentPOFPhraseIndex /\ currentPOFPhraseIndex < Len(pofPhrases)
    /\ ~isInPOFMode => pofPhrases = <<>> /\ currentPOFPhraseIndex = 0


\* The camera is stopped while the first phrase of a session is playing, and
\* started again; after the first frame of a session every face shows an
\* emotion the catalog has no phrase for.  The audio the stop has paused may
\* still fail (it was loading), at any later time.
LateDetections ==
    [currentTime \in Nat |->
        IF currentTime = 1 THEN { <<Detection(BoxA, Happy)>> }
        ELSE { <<Detection(BoxA, Sad)>> }]

LateNext ==
    \/ StartCamera(MaxStarts)
    \/ currentAudio # 0 /\ stopCamera
    \/ AnimationFrame(MaxFrame)
    \/ DetectResume(LateDetections)
    \/ AudioEnded
    \/ AudioError
    \/ PlayRejected
    \/ TimerFires
    \/ FetchCompletes(SeqResponses)

LateSpec == FallbackInit /\ [][LateNext]_vars

=============================================================================
